---- MODULE Spec2Model ----
(***************************************************************************)
(* Model of src/streamlit_dashboard.py: one run of the dashboard script.   *)
(* The script reads three sidebar inputs, loads a table of yearly          *)
(* financial records, checks its columns, extracts a two-point CAGR per    *)
(* column, projects every column to 2025, applies the scenario inputs,     *)
(* computes four ratios for the base and the adjusted figures and renders  *)
(* two tables.  Streamlit runs the script again, from the top, whenever a  *)
(* widget changes.                                                         *)
(*                                                                         *)
(* Numbers.  The script computes in float64.  The model computes +, -, *   *)
(* and / exactly, on normalised fractions [n, d] (d > 0), and keeps the    *)
(* IEEE special values the script can produce: NaN = [0, 0], +inf = [1, 0] *)
(* and -inf = [-1, 0].  The one irrational operation, x ** (1/yrs), is     *)
(* rounded: the model rounds the real root down to a multiple of           *)
(* 1/RootDen (float64 rounds it to 53 bits).                               *)
(***************************************************************************)
EXTENDS Integers, Sequences, FiniteSets, TLC

(***************************************************************************)
(* float64 arithmetic                                                      *)
(***************************************************************************)
Abs(i) == IF i < 0 THEN 0 - i ELSE i

Sgn(i) == IF i < 0 THEN 0 - 1 ELSE IF i > 0 THEN 1 ELSE 0

RECURSIVE GCD(_, _)
GCD(a, b) == IF b = 0 THEN a ELSE GCD(b, a % b)

Norm(n, d) ==
    LET g == GCD(Abs(n), Abs(d))
    IN  [n |-> Sgn(d) * (n \div g), d |-> Abs(d) \div g]

R(i) == [n |-> i, d |-> 1]

Frac(n, d) == Norm(n, d)

Zero == R(0)

One == R(1)

NaN == [n |-> 0, d |-> 0]

Inf == [n |-> 1, d |-> 0]

IsNaN(x) == x.d = 0 /\ x.n = 0

IsFinite(x) == x.d > 0

Neg(x) == [n |-> 0 - x.n, d |-> x.d]

Add(x, y) ==
    IF x.d = 0 /\ y.d = 0 THEN (IF x.n = y.n THEN x ELSE NaN)
    ELSE IF x.d = 0 THEN x
    ELSE IF y.d = 0 THEN y
    ELSE LET g == GCD(x.d, y.d)
             l == (x.d \div g) * y.d
         IN  Norm(x.n * (l \div x.d) + y.n * (l \div y.d), l)

Sub(x, y) == Add(x, Neg(y))

Mul(x, y) ==
    IF x.d = 0 \/ y.d = 0 THEN [n |-> Sgn(x.n) * Sgn(y.n), d |-> 0]
    ELSE LET g1 == GCD(Abs(x.n), y.d)
             g2 == GCD(Abs(y.n), x.d)
         IN  IF x.n = 0 \/ y.n = 0 THEN Zero
             ELSE [n |-> (x.n \div g1) * (y.n \div g2),
                   d |-> (x.d \div g2) * (y.d \div g1)]

\* 1 / y in float64: 1/0 is inf, 1/inf is 0, 1/nan is nan (no exception).
Inv(y) ==
    IF y.d = 0 THEN (IF y.n = 0 THEN NaN ELSE Zero)
    ELSE IF y.n = 0 THEN Inf
    ELSE [n |-> Sgn(y.n) * y.d, d |-> Abs(y.n)]

Div(x, y) == Mul(x, Inv(y))

\* a/b < c/d for b, d > 0, by integer parts and then the reciprocals of the
\* fractional parts, so that no product is formed.
RECURSIVE FracLess(_, _, _, _)
FracLess(a, b, c, d) ==
    LET qa == a \div b
        qc == c \div d
        ra == a % b
        rc == c % d
    IN  IF qa # qc THEN qa < qc
        ELSE IF rc = 0 THEN FALSE
        ELSE IF ra = 0 THEN TRUE
        ELSE FracLess(d, rc, b, ra)

\* x < y; every comparison with NaN is false.
Lt(x, y) ==
    IF IsNaN(x) \/ IsNaN(y) THEN FALSE
    ELSE IF x.d = 0 THEN x.n < 0 /\ y # x
    ELSE IF y.d = 0 THEN y.n > 0
    ELSE FracLess(x.n, x.d, y.n, y.d)

Leq(x, y) == Lt(x, y) \/ (x = y /\ ~IsNaN(x))

\* bool(x): zero is the only falsy number (nan and inf are truthy).
Truthy(x) == ~(x.d > 0 /\ x.n = 0)

\* Python's min(a, b): b when b < a, else a.
PyMin(a, b) == IF Lt(b, a) THEN b ELSE a

\* x ** k for an integer k >= 0 (x ** 0 = 1 for every x).
RECURSIVE PowInt(_, _)
PowInt(x, k) == IF k = 0 THEN One ELSE Mul(x, PowInt(x, k - 1))

\* Denominator of the grid x ** (1/yrs) is rounded to.
RootDen == 100

RECURSIVE IntPow(_, _)
IntPow(b, k) == IF k = 0 THEN 1 ELSE b * IntPow(b, k - 1)

\* k^n <= X, for k >= 0, without forming k^n.
RECURSIVE PowLeq(_, _, _)
PowLeq(k, n, X) ==
    IF n = 0 THEN 1 <= X
    ELSE IF k = 0 THEN TRUE
    ELSE PowLeq(k, n - 1, X \div k)

\* The largest k in lo..hi with k^n <= X (lo^n <= X is given; the root of
\* x >= 1 is at most x, and that of x < 1 at most 1).
RECURSIVE RootSearch(_, _, _, _)
RootSearch(lo, hi, n, X) ==
    IF lo = hi THEN lo
    ELSE LET mid == (lo + hi + 1) \div 2
         IN  IF PowLeq(mid, n, X) THEN RootSearch(mid, hi, n, X)
             ELSE RootSearch(lo, mid - 1, n, X)

\* x ** (1 / yrs), yrs an integer >= 0.  1 / yrs is inf when yrs = 0 (numpy
\* integer division by zero warns and yields inf), and x ** inf is 1 for
\* x = 1, 0 for 0 <= x < 1 and inf for x > 1.  A negative base yields nan.
PowRecip(x, yrs) ==
    IF IsNaN(x) THEN NaN
    ELSE IF Lt(x, Zero) THEN NaN
    ELSE IF yrs = 0 THEN (IF x = One THEN One ELSE IF Lt(x, One) THEN Zero ELSE Inf)
    ELSE IF x.d = 0 THEN Inf
    ELSE LET X == (x.n * IntPow(RootDen, yrs)) \div x.d
             hi == IF Lt(x, One) THEN RootDen ELSE (x.n * RootDen) \div x.d
         IN  Norm(RootSearch(0, hi, yrs, X), RootDen)

(***************************************************************************)
(* Inputs: the sidebar widgets and the spreadsheet                         *)
(***************************************************************************)
OrderFreqOptions == {"Weekly", "Bi-weekly", "Monthly"}

DemandOutlookOptions == {"Pessimistic (-10%)", "Baseline (0%)", "Optimistic (+10%)"}

\* number_input(min_value=0.0): the budgets the runs are checked with.
BudgetOptions == {R(0), R(100000), R(200000)}

required_cols ==
    <<"Year", "Revenue", "COGS", "Current Assets", "Current Liabilities",
      "Inventory", "Cash", "Accounts Receivable", "Net Income", "Total Assets">>

RequiredSet == {required_cols[i] : i \in 1..Len(required_cols)}

\* required_cols[1:]
ValueCols == RequiredSet \ {"Year"}

\* One row of the sheet, a cell per column.
MkRow(y, rev, cogs, ca, cl, inv, cash, ar, ni, ta) ==
    ("Year" :> y) @@ ("Revenue" :> rev) @@ ("COGS" :> cogs)
    @@ ("Current Assets" :> ca) @@ ("Current Liabilities" :> cl)
    @@ ("Inventory" :> inv) @@ ("Cash" :> cash) @@ ("Accounts Receivable" :> ar)
    @@ ("Net Income" :> ni) @@ ("Total Assets" :> ta)

\* The rows a spreadsheet is made of: non-negative figures, years on both
\* sides of the cutoff, zero start values and zero end values.
RowPool ==
    { MkRow(2020, 1000, 600, 150000, 250, 120000, 10000, 20000, 100, 200000),
      MkRow(2020, 0, 0, 180000, 0, 150000, 10000, 20000, 0, 0),
      MkRow(2021, 1100, 660, 150000, 300, 120000, 10000, 20000, 110, 0),
      MkRow(2023, 1331, 800, 196000, 250, 150000, 16000, 30000, 150, 250000),
      MkRow(2023, 0, 0, 30000, 0, 0, 10000, 20000, 0, 500),
      MkRow(2024, 2000, 1200, 300000, 500, 240000, 20000, 40000, 200, 400000) }

\* Longest spreadsheet, in rows.
MaxRows == 3

\* The spreadsheets: up to MaxRows distinct rows, in any order.
Tables ==
    {t \in UNION {[1..k -> RowPool] : k \in 0..MaxRows} :
        \A i, j \in DOMAIN t : i # j => t[i] # t[j]}

\* A sheet that lacks columns: every required column but one, or none.
ColumnSets == {RequiredSet} \cup {RequiredSet \ {c} : c \in RequiredSet}

Restrict(row, cs) == [c \in cs |-> row[c]]

Sheet(t, cs) == [i \in 1..Len(t) |-> Restrict(t[i], cs)]

\* What pd.read_excel can return: any table with every column, and the
\* short tables with a column missing.
Files ==
    {[rows |-> t, columns |-> RequiredSet] : t \in Tables}
    \cup {[rows |-> Sheet(t, cs), columns |-> cs] :
             t \in {u \in Tables : Len(u) <= 1}, cs \in ColumnSets \ {RequiredSet}}

(***************************************************************************)
(* The engine, lines 46-100                                                *)
(***************************************************************************)
\* A dict keyed by required_cols[1:], every value computed once.
Dict(f) ==
    ("Revenue" :> f["Revenue"]) @@ ("COGS" :> f["COGS"])
    @@ ("Current Assets" :> f["Current Assets"])
    @@ ("Current Liabilities" :> f["Current Liabilities"])
    @@ ("Inventory" :> f["Inventory"]) @@ ("Cash" :> f["Cash"])
    @@ ("Accounts Receivable" :> f["Accounts Receivable"])
    @@ ("Net Income" :> f["Net Income"]) @@ ("Total Assets" :> f["Total Assets"])

cutoff == 2023

proj_year == 2025

\* No cutoff: every row counts as history.
HistAll(t) == t

\* df[df['Year'] <= 2023]
Hist(t) == SelectSeq(t, LAMBDA r : r["Year"] <= cutoff)

YearsOf(t) == {t[i]["Year"] : i \in 1..Len(t)}

\* Series.min() / Series.max(): nan on an empty series.
YearMin(t) ==
    IF t = <<>> THEN NaN
    ELSE R(CHOOSE y \in YearsOf(t) : \A z \in YearsOf(t) : y <= z)

YearMax(t) ==
    IF t = <<>> THEN NaN
    ELSE R(CHOOSE y \in YearsOf(t) : \A z \in YearsOf(t) : y >= z)

\* end_year - start_year
Yrs(start_year, end_year) == Sub(end_year, start_year)

\* t.loc[t['Year'] == year, col].values[0]: the cell of the first row, in
\* row order, whose Year is year.
FirstRow(t, year) ==
    t[CHOOSE i \in 1..Len(t) :
         /\ R(t[i]["Year"]) = year
         /\ \A j \in 1..(i - 1) : R(t[j]["Year"]) # year]

\* .values[0] raises IndexError on an empty selection: nothing equals the
\* nan that min() and max() give for an empty series.
RaisesIndexError(t) == Hist(t) = <<>>

\* The quotient taken even for a non-positive start value, as zero.
CagrOfMinusOne(start_val, end_val, yrs) ==
    IF Lt(Zero, start_val)
    THEN Sub(PowRecip(Div(end_val, start_val), yrs.n), One)
    ELSE Neg(One)

\* The growth factor kept as the rate: the "- 1" left out.
CagrOfFactor(start_val, end_val, yrs) ==
    IF Lt(Zero, start_val)
    THEN PowRecip(Div(end_val, start_val), yrs.n)
    ELSE Zero

\* (end_val / start_val) ** (1/yrs) - 1 if start_val > 0 else 0.0
CagrOf(start_val, end_val, yrs) ==
    IF Lt(Zero, start_val)
    THEN Sub(PowRecip(Div(end_val, start_val), yrs.n), One)
    ELSE Zero

\* The loop of lines 52-55, for a table with a year at or before the cutoff.
GrowthRates(t) ==
    LET hist == Hist(t)
        start_year == YearMin(hist)
        end_year == YearMax(hist)
        yrs == Yrs(start_year, end_year)
        start_row == FirstRow(hist, start_year)
        end_row == FirstRow(hist, end_year)
    IN  Dict([col \in ValueCols |-> CagrOf(R(start_row[col]), R(end_row[col]), yrs)])

\* proj_year - end_year
YearsToProj(end_year) == Sub(R(proj_year), end_year)

\* Lines 60-63.
BaseProj(t, end_year, rates) ==
    LET end_row == FirstRow(t, end_year)
        n == YearsToProj(end_year).n
    IN  Dict([col \in ValueCols |-> Mul(R(end_row[col]), PowInt(Add(One, rates[col]), n))])

Projection(t) == BaseProj(t, YearMax(Hist(t)), GrowthRates(t))

outlook_factor(demand) ==
    CASE demand = "Pessimistic (-10%)" -> Frac(9, 10)
      [] demand = "Baseline (0%)" -> One
      [] demand = "Optimistic (+10%)" -> Frac(11, 10)

freq_map(freq) ==
    CASE freq = "Weekly" -> Frac(9, 10)
      [] freq = "Bi-weekly" -> One
      [] freq = "Monthly" -> Frac(11, 10)

\* The frequency effect applied before the budget cap.
AdjInventoryScaleThenCap(inv_base, b, freq) == PyMin(Mul(inv_base, freq_map(freq)), b)

\* Lines 71-74: the budget cap, then the frequency effect.
AdjInventory(inv_base, b, freq) == Mul(PyMin(inv_base, b), freq_map(freq))

\* Net income left at its baseline projection.
AdjNetIncomeUnscaled(bp, adj_rev) == bp["Net Income"]

\* Line 82.
AdjNetIncome(bp, adj_rev) == Mul(bp["Net Income"], Div(adj_rev, bp["Revenue"]))

\* The demand outlook applied to the inventory as well.
AdjustedDemandDrivesInventory(bp, freq, b, demand) ==
    LET rev == Mul(bp["Revenue"], outlook_factor(demand))
        cogs == Mul(bp["COGS"], outlook_factor(demand))
        inv == Mul(AdjInventory(bp["Inventory"], b, freq), outlook_factor(demand))
        ca == Add(Add(bp["Cash"], bp["Accounts Receivable"]), inv)
        cl == bp["Current Liabilities"]
    IN  [revenue |-> rev,
         cogs |-> cogs,
         inventory |-> inv,
         current_assets |-> ca,
         current_liabilities |-> cl,
         working_capital |-> Sub(ca, cl),
         quick_assets |-> Sub(ca, inv),
         total_assets |-> bp["Total Assets"],
         net_income |-> AdjNetIncome(bp, rev)]

\* Lines 66-82: the adjusted figures.
Adjusted(bp, freq, b, demand) ==
    LET rev == Mul(bp["Revenue"], outlook_factor(demand))
        cogs == Mul(bp["COGS"], outlook_factor(demand))
        inv == AdjInventory(bp["Inventory"], b, freq)
        ca == Add(Add(bp["Cash"], bp["Accounts Receivable"]), inv)
        cl == bp["Current Liabilities"]
    IN  [revenue |-> rev,
         cogs |-> cogs,
         inventory |-> inv,
         current_assets |-> ca,
         current_liabilities |-> cl,
         working_capital |-> Sub(ca, cl),
         quick_assets |-> Sub(ca, inv),
         total_assets |-> bp["Total Assets"],
         net_income |-> AdjNetIncome(bp, rev)]

\* A zero revenue reported as a margin of zero.
compute_ratios_zero_margin(ca, cl, inv, ni, rev, ta) ==
    [cr |-> IF Truthy(cl) THEN Div(ca, cl) ELSE NaN,
     qr |-> IF Truthy(cl) THEN Div(Sub(ca, inv), cl) ELSE NaN,
     wcr |-> IF Truthy(ta) THEN Div(Sub(ca, cl), ta) ELSE NaN,
     npm |-> IF Truthy(rev) THEN Div(ni, rev) ELSE Zero]

\* Lines 85-90; np.nan is the value of an undefined ratio.
compute_ratios(ca, cl, inv, ni, rev, ta) ==
    [cr |-> IF Truthy(cl) THEN Div(ca, cl) ELSE NaN,
     qr |-> IF Truthy(cl) THEN Div(Sub(ca, inv), cl) ELSE NaN,
     wcr |-> IF Truthy(ta) THEN Div(Sub(ca, cl), ta) ELSE NaN,
     npm |-> IF Truthy(rev) THEN Div(ni, rev) ELSE NaN]

\* Lines 93-96.
BaseRatios(bp) ==
    compute_ratios(bp["Current Assets"], bp["Current Liabilities"], bp["Inventory"],
                   bp["Net Income"], bp["Revenue"], bp["Total Assets"])

\* Lines 97-100.
AdjRatios(a) ==
    compute_ratios(a.current_assets, a.current_liabilities, a.inventory,
                   a.net_income, a.revenue, a.total_assets)

(***************************************************************************)
(* The tables rendered, lines 103-126                                      *)
(***************************************************************************)
BaseCase(bp) ==
    ("Revenue" :> bp["Revenue"]) @@ ("COGS" :> bp["COGS"])
    @@ ("Inventory Asset" :> bp["Inventory"])
    @@ ("Current Assets" :> bp["Current Assets"])
    @@ ("Current Liabilities" :> bp["Current Liabilities"])
    @@ ("Working Capital" :> Sub(bp["Current Assets"], bp["Current Liabilities"]))
    @@ ("Quick Assets" :> Sub(bp["Current Assets"], bp["Inventory"]))
    @@ ("Total Assets" :> bp["Total Assets"])
    @@ ("Net Income" :> bp["Net Income"])

AdjustedCase(a) ==
    ("Revenue" :> a.revenue) @@ ("COGS" :> a.cogs)
    @@ ("Inventory Asset" :> a.inventory)
    @@ ("Current Assets" :> a.current_assets)
    @@ ("Current Liabilities" :> a.current_liabilities)
    @@ ("Working Capital" :> a.working_capital)
    @@ ("Quick Assets" :> a.quick_assets)
    @@ ("Total Assets" :> a.total_assets)
    @@ ("Net Income" :> a.net_income)

ResultDf(bp, a) == [Base |-> BaseCase(bp), Adjusted |-> AdjustedCase(a)]

RatiosDf(br, ar) == [Base |-> br, Adjusted |-> ar]

\* What one run of the script shows for a loaded table with every column.
Forecast(t, freq, b, demand) ==
    IF RaisesIndexError(t)
    THEN [exception |-> "IndexError", cagr |-> <<>>, result_df |-> <<>>, ratios_df |-> <<>>]
    ELSE LET gr == GrowthRates(t)
             bp == BaseProj(t, YearMax(Hist(t)), gr)
             a == Adjusted(bp, freq, b, demand)
         IN  [exception |-> "none",
              cagr |-> gr,
              result_df |-> ResultDf(bp, a),
              ratios_df |-> RatiosDf(BaseRatios(bp), AdjRatios(a))]

(***************************************************************************)
(* One run of the script                                                   *)
(***************************************************************************)
VARIABLES
    pc,              \* the block the script is about to run
    order_freq,      \* line 11
    budget,          \* line 16
    demand_outlook,  \* line 23
    df,              \* line 32, the rows
    columns,         \* df.columns, {} while no table is loaded
    st_error,        \* the st.error message shown, "none" while there is none
    exception,       \* the exception that ended the run, "none" while there is none
    rendered,        \* the streamlit elements shown so far
    hist, start_year, end_year, yrs, cagr,   \* lines 47-55
    years_to_proj, base_proj,                \* lines 59-63
    adj,             \* lines 66-82: adj_revenue ... adj_net_income
    base_ratios,     \* line 93: base_cr, base_qr, base_wcr, base_npm
    adj_ratios,      \* line 97: adj_cr, adj_qr, adj_wcr, adj_npm
    result_df,       \* line 104
    ratios_df        \* line 121

\* A name the run has not bound yet.
Unbound == <<>>

inputs == <<order_freq, budget, demand_outlook>>

loaded == <<df, columns>>

rates == <<hist, start_year, end_year, yrs, cagr>>

projected == <<years_to_proj, base_proj>>

derived == <<adj, base_ratios, adj_ratios>>

tables == <<result_df, ratios_df>>

vars ==
    <<pc, inputs, loaded, st_error, exception, rendered, rates, projected, derived, tables>>

\* Lines 6-27: a fresh run with the widgets' current values.
Fresh ==
    /\ pc = "load"
    /\ df = Unbound /\ columns = {}
    /\ st_error = "none" /\ exception = "none"
    /\ rendered = {}
    /\ hist = Unbound /\ start_year = Unbound /\ end_year = Unbound
    /\ yrs = Unbound /\ cagr = Unbound
    /\ years_to_proj = Unbound /\ base_proj = Unbound
    /\ adj = Unbound /\ base_ratios = Unbound /\ adj_ratios = Unbound
    /\ result_df = Unbound /\ ratios_df = Unbound

Init ==
    /\ order_freq \in OrderFreqOptions
    /\ budget \in BudgetOptions
    /\ demand_outlook \in DemandOutlookOptions
    /\ Fresh

\* Lines 31-33: the file is read.
LoadOk ==
    /\ pc = "load"
    /\ \E f \in Files :
          /\ df' = f.rows
          /\ columns' = f.columns
    /\ rendered' = rendered \cup {"sidebar.success"}
    /\ pc' = "check_columns"
    /\ UNCHANGED <<inputs, st_error, exception, rates, projected, derived, tables>>

\* Lines 34-36: read_excel raised; st.error, then st.stop().
LoadFails ==
    /\ pc = "load"
    /\ st_error' = "Error loading data"
    /\ rendered' = rendered \cup {"error"}
    /\ pc' = "stopped"
    /\ UNCHANGED <<inputs, loaded, exception, rates, projected, derived, tables>>

\* Only the Year column is looked for.
MissingYearOnly(cols) == {c \in {"Year"} : c \notin cols}

\* missing = [c for c in required_cols if c not in df.columns]
Missing(cols) == {c \in RequiredSet : c \notin cols}

\* Lines 39-44.
CheckColumns ==
    /\ pc = "check_columns"
    /\ IF Missing(columns) # {}
       THEN /\ st_error' = "Missing required columns"
            /\ rendered' = rendered \cup {"error"}
            /\ pc' = "stopped"
       ELSE /\ pc' = "cagr"
            /\ UNCHANGED <<st_error, rendered>>
    /\ UNCHANGED <<inputs, loaded, exception, rates, projected, derived, tables>>

\* Lines 47-55.  df['Year'] raises KeyError when the column is absent, and
\* .values[0] raises IndexError when no year is at or before the cutoff; an
\* uncaught exception ends the run and streamlit shows it.
ComputeCagr ==
    /\ pc = "cagr"
    /\ IF ~(RequiredSet \subseteq columns)
       THEN /\ exception' = "KeyError"
            /\ rendered' = rendered \cup {"exception"}
            /\ pc' = "crashed"
            /\ UNCHANGED rates
       ELSE /\ hist' = Hist(df)
            /\ start_year' = YearMin(Hist(df))
            /\ end_year' = YearMax(Hist(df))
            /\ yrs' = Yrs(YearMin(Hist(df)), YearMax(Hist(df)))
            /\ IF RaisesIndexError(df)
               THEN /\ cagr' = <<>>
                    /\ exception' = "IndexError"
                    /\ rendered' = rendered \cup {"exception"}
                    /\ pc' = "crashed"
               ELSE /\ cagr' = GrowthRates(df)
                    /\ pc' = "project"
                    /\ UNCHANGED <<exception, rendered>>
    /\ UNCHANGED <<inputs, loaded, st_error, projected, derived, tables>>

\* Lines 58-63.
ProjectBase ==
    /\ pc = "project"
    /\ years_to_proj' = YearsToProj(end_year)
    /\ base_proj' = BaseProj(df, end_year, cagr)
    /\ pc' = "adjust"
    /\ UNCHANGED <<inputs, loaded, st_error, exception, rendered, rates, derived, tables>>

\* Lines 66-82.
Adjust ==
    /\ pc = "adjust"
    /\ adj' = Adjusted(base_proj, order_freq, budget, demand_outlook)
    /\ pc' = "ratios"
    /\ UNCHANGED <<base_ratios, adj_ratios>>
    /\ UNCHANGED <<inputs, loaded, st_error, exception, rendered, rates, projected, tables>>

\* Lines 93-100.
ComputeRatios ==
    /\ pc = "ratios"
    /\ base_ratios' = BaseRatios(base_proj)
    /\ adj_ratios' = AdjRatios(adj)
    /\ pc' = "display"
    /\ UNCHANGED adj
    /\ UNCHANGED <<inputs, loaded, st_error, exception, rendered, rates, projected, tables>>

\* Lines 103-140.
Display ==
    /\ pc = "display"
    /\ result_df' = ResultDf(base_proj, adj)
    /\ ratios_df' = RatiosDf(base_ratios, adj_ratios)
    /\ rendered' = rendered \cup {"header", "dataframe", "subheader", "table", "markdown"}
    /\ pc' = "done"
    /\ UNCHANGED <<inputs, loaded, st_error, exception, rates, projected, derived>>

\* A widget changes and streamlit runs the script again from the top:
\* nothing of the finished run is kept.
Rerun ==
    /\ pc \in {"done", "stopped", "crashed"}
    /\ order_freq' \in OrderFreqOptions
    /\ budget' \in BudgetOptions
    /\ demand_outlook' \in DemandOutlookOptions
    /\ <<order_freq', budget', demand_outlook'>> # inputs
    /\ pc' = "load"
    /\ df' = Unbound /\ columns' = {}
    /\ st_error' = "none" /\ exception' = "none"
    /\ rendered' = {}
    /\ hist' = Unbound /\ start_year' = Unbound /\ end_year' = Unbound
    /\ yrs' = Unbound /\ cagr' = Unbound
    /\ years_to_proj' = Unbound /\ base_proj' = Unbound
    /\ adj' = Unbound /\ base_ratios' = Unbound /\ adj_ratios' = Unbound
    /\ result_df' = Unbound /\ ratios_df' = Unbound

Next ==
    \/ LoadOk
    \/ LoadFails
    \/ CheckColumns
    \/ ComputeCagr
    \/ ProjectBase
    \/ Adjust
    \/ ComputeRatios
    \/ Display
    \/ Rerun

Spec == Init /\ [][Next]_vars

(***************************************************************************)
(* The historical endpoints, read off the loaded rows                      *)
(***************************************************************************)
Done == pc = "done"

HistIdx == {i \in 1..Len(df) : df[i]["Year"] <= 2023}

StartIdx ==
    CHOOSE i \in HistIdx : \A j \in HistIdx :
        \/ df[i]["Year"] < df[j]["Year"]
        \/ df[i]["Year"] = df[j]["Year"] /\ i <= j

EndIdx ==
    CHOOSE i \in HistIdx : \A j \in HistIdx :
        \/ df[i]["Year"] > df[j]["Year"]
        \/ df[i]["Year"] = df[j]["Year"] /\ i <= j

StartRow == df[StartIdx]

EndRow == df[EndIdx]

HistYears == {df[i]["Year"] : i \in HistIdx}

\* rate is the n-th root of e/s less one, to within the rounding of the root.
RateIsRoot(rate, s, e, n) ==
    /\ Leq(Mul(s, PowInt(Add(One, rate), n)), e)
    /\ Lt(e, Mul(s, PowInt(Add(Add(One, rate), Frac(1, RootDen)), n)))

(***************************************************************************)
(* Scenario composition order                                              *)
(***************************************************************************)
FreqFactor ==
    CASE order_freq = "Weekly" -> Frac(9, 10)
      [] order_freq = "Bi-weekly" -> One
      [] order_freq = "Monthly" -> Frac(11, 10)

CappedInventory ==
    IF Leq(base_proj["Inventory"], budget) THEN base_proj["Inventory"] ELSE budget

\* C1: the adjusted inventory is min(baseline inventory, budget) times the
\* frequency factor (Weekly 0.9, Bi-weekly 1.0, Monthly 1.1): the cap comes
\* first.  A baseline inventory of 150000 under a budget of 100000, ordered
\* Monthly, gives 110000 and not 100000; the rendered table shows that figure.
C1_CapBeforeFrequency ==
    Done =>
       /\ adj.inventory = Mul(CappedInventory, FreqFactor)
       /\ result_df.Adjusted["Inventory Asset"] = Mul(CappedInventory, FreqFactor)
       /\ (/\ base_proj["Inventory"] = R(150000)
           /\ budget = R(100000)
           /\ order_freq = "Monthly")
             => /\ result_df.Adjusted["Inventory Asset"] = R(110000)
                /\ result_df.Adjusted["Inventory Asset"] # R(100000)

\* A run where capping first and scaling first differ.
C1_Witness ==
    /\ Done
    /\ base_proj["Inventory"] = R(150000)
    /\ budget = R(100000)
    /\ order_freq = "Monthly"
    /\ result_df.Adjusted["Inventory Asset"] = R(110000)
    /\ PyMin(Mul(base_proj["Inventory"], Frac(11, 10)), budget) = R(100000)

(***************************************************************************)
(* Zero denominators                                                       *)
(***************************************************************************)
\* r is the ratio set of (ca, cl, inv, ni, rev, ta): a ratio is the undefined
\* value exactly when its denominator is zero, and is the quotient otherwise.
RatiosSound(r, ca, cl, inv, ni, rev, ta) ==
    /\ IsNaN(r.cr) <=> cl = Zero
    /\ IsNaN(r.qr) <=> cl = Zero
    /\ IsNaN(r.wcr) <=> ta = Zero
    /\ IsNaN(r.npm) <=> rev = Zero
    /\ cl # Zero => IsFinite(r.cr) /\ Mul(r.cr, cl) = ca
    /\ cl # Zero => IsFinite(r.qr) /\ Mul(r.qr, cl) = Sub(ca, inv)
    /\ ta # Zero => IsFinite(r.wcr) /\ Mul(r.wcr, ta) = Sub(ca, cl)
    /\ rev # Zero => IsFinite(r.npm) /\ Mul(r.npm, rev) = ni

\* C3: in both columns of the ratio table, currentRatio and quickRatio are
\* undefined iff currentLiabilities = 0, workingCapitalRatio iff totalAssets
\* = 0 and netProfitMargin iff revenue = 0; every other ratio is its numeric
\* quotient, the undefined value is no number, and the run renders its tables
\* without an exception.
C3_ZeroDenominatorIsUndefined ==
    Done =>
       /\ exception = "none"
       /\ "table" \in rendered
       /\ RatiosSound(ratios_df.Base,
                      base_proj["Current Assets"], base_proj["Current Liabilities"],
                      base_proj["Inventory"], base_proj["Net Income"],
                      base_proj["Revenue"], base_proj["Total Assets"])
       /\ RatiosSound(ratios_df.Adjusted,
                      adj.current_assets, adj.current_liabilities, adj.inventory,
                      adj.net_income, adj.revenue, adj.total_assets)

\* Zero liabilities and zero revenue with non-zero total assets: three ratios
\* undefined, the fourth a number, the tables rendered.
C3_Witness ==
    /\ Done
    /\ base_proj["Current Liabilities"] = Zero
    /\ base_proj["Revenue"] = Zero
    /\ base_proj["Total Assets"] # Zero
    /\ base_proj["Current Assets"] # Zero
    /\ IsNaN(ratios_df.Base.cr) /\ IsNaN(ratios_df.Base.qr) /\ IsNaN(ratios_df.Base.npm)
    /\ IsFinite(ratios_df.Base.wcr)
    /\ IsNaN(ratios_df.Adjusted.npm) /\ IsFinite(ratios_df.Adjusted.wcr)
    /\ "table" \in rendered

(***************************************************************************)
(* Failed load, missing columns                                            *)
(***************************************************************************)
EngineIdle ==
    /\ hist = Unbound /\ start_year = Unbound /\ end_year = Unbound /\ yrs = Unbound
    /\ cagr = Unbound /\ years_to_proj = Unbound /\ base_proj = Unbound
    /\ adj = Unbound /\ base_ratios = Unbound /\ adj_ratios = Unbound
    /\ result_df = Unbound /\ ratios_df = Unbound
    /\ rendered \cap {"header", "dataframe", "subheader", "table"} = {}

\* C5: once the load has failed, or the loaded table has been found to lack
\* one of the ten required columns, the run has reported the error and
\* stopped, and no growth rate, projection, adjustment, ratio or result table
\* exists; a table that lacks a column never gets past the column check.
C5_NoEngineAfterFailedLoad ==
    /\ st_error # "none" => pc = "stopped" /\ "error" \in rendered /\ EngineIdle
    /\ pc = "stopped" => st_error # "none"
    /\ ("sidebar.success" \in rendered /\ ~(RequiredSet \subseteq columns)) =>
          /\ pc \in {"check_columns", "stopped"}
          /\ pc = "stopped" => st_error = "Missing required columns"
          /\ EngineIdle
    /\ (pc # "load" /\ "sidebar.success" \notin rendered) =>
          st_error = "Error loading data" /\ df = Unbound

\* A loaded table with rows and a column missing, reported and stopped.
C5_Witness ==
    /\ pc = "stopped"
    /\ st_error = "Missing required columns"
    /\ columns = RequiredSet \ {"Total Assets"}
    /\ Len(df) = 1
    /\ EngineIdle

(***************************************************************************)
(* Growth rates and the baseline projection                                *)
(***************************************************************************)
\* C6: for every field whose start-year value is <= 0 the rate is exactly 0.0
\* and the baseline projection is the end-year value unchanged; every field
\* with a positive start value still gets the rate of its own endpoints; and
\* the run goes on to its end without an exception.
C6_NonPositiveStartIsFlat ==
    /\ (pc \in {"project", "adjust", "ratios", "display"} /\ HistIdx # {}) =>
          exception = "none"
    /\ Done =>
          \A sr \in {StartRow}, er \in {EndRow} :
             /\ exception = "none"
             /\ \A col \in ValueCols :
                   IF sr[col] <= 0
                   THEN /\ cagr[col] = Zero
                        /\ base_proj[col] = R(er[col])
                        /\ col \in {"Revenue", "COGS", "Net Income", "Total Assets"} =>
                              result_df.Base[col] = R(er[col])
                   ELSE er["Year"] > sr["Year"] =>
                           RateIsRoot(cagr[col], R(sr[col]), R(er[col]),
                                      er["Year"] - sr["Year"])

\* Two distinct years, a field that starts at zero and ends positive, and
\* another field with a non-zero rate, in a run that rendered its tables.
C6_Witness ==
    /\ Done
    /\ EndRow["Year"] > StartRow["Year"]
    /\ StartRow["Revenue"] = 0 /\ EndRow["Revenue"] = 1331
    /\ cagr["Revenue"] = Zero
    /\ result_df.Base["Revenue"] = R(1331)
    /\ cagr["Cash"] # Zero

\* C7: for every field with start > 0 and end.Year > start.Year the rate is
\* the root of end/start, start * (1 + rate)^(end.Year - start.Year) = end to
\* within the rounding of the root, and the baseline projection is
\* end * (1 + rate)^(2025 - end.Year).  Revenue 1000 in 2020 and 1331 in 2023
\* gives a rate of exactly 10% and, at Baseline outlook, a 2025 Revenue of
\* 1610.51 in the Base and in the Adjusted column.
C7_RateIsCompoundGrowth ==
    /\ pc = "project" =>
          \A sr \in {StartRow}, er \in {EndRow} :
             \A col \in ValueCols :
                (sr[col] > 0 /\ er["Year"] > sr["Year"]) =>
                   RateIsRoot(cagr[col], R(sr[col]), R(er[col]), er["Year"] - sr["Year"])
    /\ Done =>
       \A sr \in {StartRow}, er \in {EndRow} :
          /\ \A col \in ValueCols :
                (sr[col] > 0 /\ er["Year"] > sr["Year"]) =>
                   /\ RateIsRoot(cagr[col], R(sr[col]), R(er[col]), er["Year"] - sr["Year"])
                   /\ base_proj[col] =
                         Mul(R(er[col]), PowInt(Add(One, cagr[col]), 2025 - er["Year"]))
          /\ (/\ sr["Year"] = 2020 /\ sr["Revenue"] = 1000
              /\ er["Year"] = 2023 /\ er["Revenue"] = 1331) =>
                /\ cagr["Revenue"] = Frac(1, 10)
                /\ Mul(R(1000), PowInt(Add(One, cagr["Revenue"]), 3)) = R(1331)
                /\ result_df.Base["Revenue"] = Frac(161051, 100)
                /\ demand_outlook = "Baseline (0%)" =>
                      result_df.Adjusted["Revenue"] = Frac(161051, 100)

\* The end-to-end scenario, rendered.
C7_Witness ==
    /\ Done
    /\ StartRow["Year"] = 2020 /\ StartRow["Revenue"] = 1000
    /\ EndRow["Year"] = 2023 /\ EndRow["Revenue"] = 1331
    /\ demand_outlook = "Baseline (0%)"
    /\ cagr["Revenue"] = Frac(1, 10)
    /\ result_df.Base["Revenue"] = Frac(161051, 100)
    /\ result_df.Adjusted["Revenue"] = Frac(161051, 100)
    /\ cagr["COGS"] = Frac(1, 10) /\ Lt(Mul(R(600), PowInt(Frac(11, 10), 3)), R(800))

(***************************************************************************)
(* Only the endpoints matter                                               *)
(***************************************************************************)
\* A year no endpoint record has: after the cutoff, or strictly between the
\* first and the last year at or before it.
NonEndpointYear(y) ==
    \/ y > 2023
    \/ \E a, b \in HistYears : a < y /\ y < b

Removed(t, i) == [j \in 1..(Len(t) - 1) |-> IF j < i THEN t[j] ELSE t[j + 1]]

Changed(t, i, r) == [t EXCEPT ![i] = r]

Inserted(t, i, r) ==
    [j \in 1..(Len(t) + 1) |-> IF j < i THEN t[j] ELSE IF j = i THEN r ELSE t[j - 1]]

\* The loaded table with one non-endpoint record removed, changed or added.
Variants ==
    LET spare == {i \in 1..Len(df) : NonEndpointYear(df[i]["Year"])}
        other == {r \in RowPool : NonEndpointYear(r["Year"])}
    IN  {Removed(df, i) : i \in spare}
        \cup {Changed(df, i, r) : i \in spare, r \in other}
        \cup {Inserted(df, i, r) : i \in {1, Len(df) + 1}, r \in other}

Shown ==
    [exception |-> exception, cagr |-> cagr, result_df |-> result_df,
     ratios_df |-> ratios_df]

\* C8: for the same scenario inputs, a table that differs from the loaded one
\* by a record whose Year is strictly between the first and the last year at
\* or before 2023, or after 2023 (one removed, one changed, or one added at
\* the top or the bottom of the sheet), gives the
\* same growth rates, the same Base and Adjusted metrics and the same ratios.
C8_OnlyEndpointsMatter ==
    (pc \in {"done", "crashed"} /\ exception # "KeyError") =>
       \A t2 \in Variants :
          Forecast(t2, order_freq, budget, demand_outlook) = Shown

\* A rendered run over a table with a record between the endpoints.
C8_Witness ==
    /\ Done
    /\ Len(df) = 3
    /\ \E i \in 1..Len(df) : StartRow["Year"] < df[i]["Year"]
                             /\ df[i]["Year"] < EndRow["Year"]
    /\ Cardinality(Variants) > 3
    /\ cagr["Revenue"] = Frac(1, 10)

(***************************************************************************)
(* What each scenario lever touches                                        *)
(***************************************************************************)
\* C9: adjusted current liabilities, total assets, cash and receivables are
\* the baseline projections; another demand outlook would leave the adjusted
\* inventory, current assets, working capital and quick assets as they are;
\* another budget or order frequency would leave adjusted Revenue, COGS and
\* NetIncome as they are; and the Base column of both tables is a function of
\* the loaded table alone.
C9_LeversAreIndependent ==
    Done =>
       /\ result_df.Adjusted["Current Liabilities"] = base_proj["Current Liabilities"]
       /\ result_df.Adjusted["Total Assets"] = base_proj["Total Assets"]
       /\ result_df.Adjusted["Quick Assets"] =
             Add(base_proj["Cash"], base_proj["Accounts Receivable"])
       /\ Sub(result_df.Adjusted["Current Assets"], result_df.Adjusted["Inventory Asset"]) =
             Add(base_proj["Cash"], base_proj["Accounts Receivable"])
       /\ \A d2 \in DemandOutlookOptions :
             \A a2 \in {AdjustedCase(Adjusted(base_proj, order_freq, budget, d2))} :
                \A m \in {"Inventory Asset", "Current Assets", "Working Capital",
                           "Quick Assets"} :
                   a2[m] = result_df.Adjusted[m]
       /\ \A f2 \in OrderFreqOptions, b2 \in BudgetOptions :
             \A a2 \in {AdjustedCase(Adjusted(base_proj, f2, b2, demand_outlook))} :
                \A m \in {"Revenue", "COGS", "Net Income"} :
                   a2[m] = result_df.Adjusted[m]
       /\ \A bp \in {Projection(df)} :
             /\ result_df.Base = BaseCase(bp)
             /\ ratios_df.Base = BaseRatios(bp)

\* A rendered run in which all three levers moved their own figures.
C9_Witness ==
    /\ Done
    /\ demand_outlook = "Optimistic (+10%)"
    /\ order_freq = "Weekly"
    /\ Lt(budget, base_proj["Inventory"])
    /\ result_df.Adjusted["Revenue"] # result_df.Base["Revenue"]
    /\ result_df.Adjusted["Net Income"] # result_df.Base["Net Income"]
    /\ result_df.Adjusted["Inventory Asset"] # result_df.Base["Inventory Asset"]
    /\ result_df.Adjusted["Current Liabilities"] = result_df.Base["Current Liabilities"]

\* C10: whenever the baseline projected Revenue is non-zero, the adjusted net
\* profit margin is the baseline net profit margin, baseline NetIncome over
\* baseline Revenue, whatever the demand outlook, budget and order frequency.
C10_MarginIsScenarioInvariant ==
    (Done /\ result_df.Base["Revenue"] # Zero) =>
       /\ ratios_df.Adjusted.npm = ratios_df.Base.npm
       /\ ratios_df.Adjusted.npm =
             Div(result_df.Base["Net Income"], result_df.Base["Revenue"])

\* A rendered run with a non-zero margin under a changed demand outlook.
C10_Witness ==
    /\ Done
    /\ demand_outlook = "Pessimistic (-10%)"
    /\ order_freq = "Monthly"
    /\ base_proj["Revenue"] # Zero
    /\ base_proj["Net Income"] # Zero
    /\ result_df.Adjusted["Net Income"] # result_df.Base["Net Income"]
    /\ ratios_df.Adjusted.npm = ratios_df.Base.npm

(***************************************************************************)
(* One balance formula for both columns                                    *)
(***************************************************************************)
Neutral ==
    /\ demand_outlook = "Baseline (0%)"
    /\ order_freq = "Bi-weekly"
    /\ Leq(base_proj["Inventory"], budget)

\* C2: in the Base column as in the Adjusted column, currentAssets is cash +
\* accountsReceivable + inventory of that column, workingCapital is
\* currentAssets - currentLiabilities and quickAssets is currentAssets -
\* inventory; so under neutral scenario inputs (Baseline, Bi-weekly, budget
\* >= baseline inventory) every Adjusted metric and ratio equals its Base
\* counterpart.
C2_OneBalanceFormula ==
    Done =>
       /\ \A side \in {result_df.Base, result_df.Adjusted} :
             /\ side["Working Capital"] =
                   Sub(side["Current Assets"], side["Current Liabilities"])
             /\ side["Quick Assets"] = Sub(side["Current Assets"], side["Inventory Asset"])
       /\ result_df.Adjusted["Current Assets"] =
             Add(Add(base_proj["Cash"], base_proj["Accounts Receivable"]),
                 result_df.Adjusted["Inventory Asset"])
       /\ result_df.Base["Current Assets"] =
             Add(Add(base_proj["Cash"], base_proj["Accounts Receivable"]),
                 result_df.Base["Inventory Asset"])
       /\ Neutral => result_df.Adjusted = result_df.Base /\ ratios_df.Adjusted = ratios_df.Base

(***************************************************************************)
(* Fewer than two historical years                                         *)
(***************************************************************************)
\* C4: when the records with Year <= 2023 hold fewer than two distinct years,
\* the run ends in a reported error: no growth rate is defaulted and no
\* projection, metric table or ratio table is produced.
C4_FewerThanTwoYearsIsFatal ==
    (/\ pc \notin {"load", "check_columns", "cagr", "stopped"}
     /\ Cardinality(HistYears) < 2) =>
       /\ pc = "crashed"
       /\ exception # "none" /\ "exception" \in rendered
       /\ cagr = <<>>
       /\ base_proj = Unbound /\ adj = Unbound
       /\ result_df = Unbound /\ ratios_df = Unbound

====
